---- MODULE Spec2Model ----
(***************************************************************************)
(* Trumpet Helper: the note-practice engine of trumpet-helper/src/App.jsx  *)
(* with the fingering table and matcher of utils/noteMapping.js.           *)
(*                                                                         *)
(* One action per React event handler or timer callback.  An action is the *)
(* handler followed by the render it causes and by the effect on           *)
(* [currentNoteIndex] (App.jsx 85-89), which React runs after every render *)
(* in which the index differs from the previous render.  The keydown       *)
(* listener is re-registered after every render (App.jsx 119-124), so a    *)
(* key event always runs the handleKeyPress closure of the latest render;  *)
(* a timer callback runs with the values its closure captured when the     *)
(* key event was handled.                                                  *)
(*                                                                         *)
(* handleNotesParsed is the entry point App hands to the score component   *)
(* (App.jsx 181-186); it is driven here as an event of the environment     *)
(* that can arrive whenever a file is selected.                            *)
(***************************************************************************)
EXTENDS Integers, Sequences, FiniteSets, TLC

VARIABLES
    musicXmlFile,       \* App.jsx 12
    notes,              \* App.jsx 13
    currentNoteIndex,   \* App.jsx 14
    buttonMappings,     \* App.jsx 15
    feedback,           \* App.jsx 16
    isCorrect,          \* App.jsx 17
    pressedButtons,     \* App.jsx 24
    timers,             \* pending setTimeout callbacks, in firing order
    last,               \* history: the transition taken last
    attempt             \* history: the chord being entered on one note

vars == <<musicXmlFile, notes, currentNoteIndex, buttonMappings, feedback,
          isCorrect, pressedButtons, timers, last, attempt>>

-----------------------------------------------------------------------------
(* Bounds of the model *)

MaxNotes == 2
MaxTimers == 2

(* Inputs *)

Pitches == {"C4", "A4"}
EventKeys == {"a", "s", "d", "A", "q"}
MappingInputs == {"S"}
Files == {"score.xml"}
Valves == {1, 2, 3}
MappingButtons == {1}

Null == "null"

-----------------------------------------------------------------------------
(* utils/noteMapping.js *)

valveMap ==
    [n \in {"C4", "C#4", "D4", "D#4", "E4", "F4", "F#4", "G4", "G#4", "A4",
            "A#4", "B4", "C5", "C#5", "D5", "D#5", "E5"} |->
        CASE n = "C4" -> <<>>
          [] n \in {"C#4", "D4"} -> <<1>>
          [] n \in {"D#4", "E4"} -> <<2>>
          [] n = "F4" -> <<1, 2>>
          [] n \in {"F#4", "G4"} -> <<3>>
          [] n \in {"G#4", "A4"} -> <<1, 3>>
          [] n \in {"A#4", "B4"} -> <<2, 3>>
          [] OTHER -> <<1, 2, 3>>]

\* valveMap is an object literal: a lookup of a name it does not hold
\* itself goes on to Object.prototype.  What is found there is a function
\* or an object, truthy and no array of valves; it stands here as an array
\* whose one element is no valve.
inheritedKeys == {"constructor", "toString", "valueOf", "hasOwnProperty"}
inherited == <<0>>

noteToValveCombination(noteName) ==
    IF noteName \in DOMAIN valveMap THEN valveMap[noteName]
    ELSE IF noteName \in inheritedKeys THEN inherited
    ELSE <<>>

includes(arr, x) == \E i \in DOMAIN arr : arr[i] = x

isCorrectCombination_noSizeTest(expectedCombination, pressed) ==
    \A i \in DOMAIN expectedCombination : expectedCombination[i] \in pressed

isCorrectCombination(expectedCombination, pressed) ==
    /\ Len(expectedCombination) = Cardinality(pressed)
    /\ \A i \in DOMAIN expectedCombination : expectedCombination[i] \in pressed
    /\ \A button \in pressed : includes(expectedCombination, button)

applyValveCombinations(parsedNotes) ==
    [i \in DOMAIN parsedNotes |->
        [name |-> parsedNotes[i].name,
         valveCombination |-> noteToValveCombination(parsedNotes[i].name)]]

-----------------------------------------------------------------------------
(* Helpers for JavaScript built-ins *)

toLowerCase(k) ==
    CASE k = "A" -> "a"
      [] k = "S" -> "s"
      [] k = "D" -> "d"
      [] k = "Q" -> "q"
      [] OTHER -> k

RECURSIVE sortedArray(_)
sortedArray(S) ==
    IF S = {} THEN <<>>
    ELSE LET m == CHOOSE x \in S : \A y \in S : x <= y
         IN <<m>> \o sortedArray(S \ {m})

Min(S) == CHOOSE x \in S : \A y \in S : x <= y

-----------------------------------------------------------------------------
(* Feedback texts (App.jsx 56, 63, 66, 72, 98) *)

NoFeedback == [kind |-> "", combination |-> <<>>, name |-> ""]
CorrectFeedback(pressed, noteName) ==
    [kind |-> "Correct!", combination |-> sortedArray(pressed), name |-> noteName]
IncorrectFeedback(pressed, noteName) ==
    [kind |-> "Incorrect!", combination |-> sortedArray(pressed), name |-> noteName]
CompletedFeedback == [kind |-> "Congratulations!", combination |-> <<>>, name |-> ""]
UploadedFeedback == [kind |-> "File uploaded", combination |-> <<>>, name |-> ""]

-----------------------------------------------------------------------------
(* Timers.  A pending timer is the closure its callback runs with: the     *)
(* note, index and length of the render in which the key event was         *)
(* handled.  changed is history: the index has changed since that key     *)
(* event.                                                                  *)

CheckDelay == 100
AdvanceDelay == 1500

Delay(t) == IF t.kind = "check" THEN CheckDelay ELSE AdvanceDelay

Timer(kind, note, index, length, changed) ==
    [kind |-> kind, note |-> note, index |-> index, length |-> length,
     changed |-> changed]

InsertAt(q, p, t) == SubSeq(q, 1, p - 1) \o <<t>> \o SubSeq(q, p, Len(q))

\* setTimeout: a timer fires after every pending timer whose delay is not
\* longer than its own; against a pending timer with a longer delay either
\* order can happen, depending on how much of that delay has passed.
Positions(q, t) ==
    {p \in 1..(Len(q) + 1) : \A i \in p..Len(q) : Delay(q[i]) > Delay(t)}

-----------------------------------------------------------------------------
(* The program state as one record, so that a handler is a function from   *)
(* state to state.                                                         *)

State ==
    [musicXmlFile |-> musicXmlFile, notes |-> notes,
     currentNoteIndex |-> currentNoteIndex, buttonMappings |-> buttonMappings,
     feedback |-> feedback, isCorrect |-> isCorrect,
     pressedButtons |-> pressedButtons, timers |-> timers]

\* const currentNote = notes[currentNoteIndex] || null  (arrays are 0-based)
hasCurrentNote(s) == (s.currentNoteIndex + 1) \in DOMAIN s.notes
currentNote(s) == s.notes[s.currentNoteIndex + 1]

\* The loop over Object.entries(buttonMappings): integer keys in ascending
\* order, the first button whose key matches wins.
matchingButtons_mountMapping(mappings, key) ==
    {b \in Valves : (1 :> "a" @@ 2 :> "s" @@ 3 :> "d")[b] = key}

matchingButtons(mappings, key) == {b \in Valves : mappings[b] = key}
pressedButtonOf_lastMatch(mappings, key) ==
    CHOOSE b \in matchingButtons(mappings, key) :
        \A o \in matchingButtons(mappings, key) : o <= b

pressedButtonOf(mappings, key) == Min(matchingButtons(mappings, key))

handleKeyPress_checksAnyKey(s, eventKey, p) ==
    IF ~hasCurrentNote(s) THEN s
    ELSE LET key == toLowerCase(eventKey)
         IN IF matchingButtons(s.buttonMappings, key) = {}
            THEN [s EXCEPT
                    !.timers = InsertAt(@, p,
                        Timer("check", currentNote(s), s.currentNoteIndex, Len(s.notes), FALSE))]
            ELSE [s EXCEPT
                    !.pressedButtons = @ \cup {pressedButtonOf(s.buttonMappings, key)},
                    !.timers = InsertAt(@, p,
                        Timer("check", currentNote(s), s.currentNoteIndex, Len(s.notes), FALSE))]

handleKeyPress_forgetsPrev(s, eventKey, p) ==
    IF ~hasCurrentNote(s) THEN s
    ELSE LET key == toLowerCase(eventKey)
         IN IF matchingButtons(s.buttonMappings, key) = {} THEN s
            ELSE [s EXCEPT
                    !.pressedButtons = {pressedButtonOf(s.buttonMappings, key)},
                    !.timers = InsertAt(@, p,
                        Timer("check", currentNote(s), s.currentNoteIndex, Len(s.notes), FALSE))]

handleKeyPress_noNoteGuard(s, eventKey, p) ==
    LET key == toLowerCase(eventKey)
        note == IF hasCurrentNote(s) THEN currentNote(s)
                ELSE [name |-> "", valveCombination |-> <<>>]
    IN IF matchingButtons(s.buttonMappings, key) = {} THEN s
       ELSE [s EXCEPT
               !.pressedButtons = @ \cup {pressedButtonOf(s.buttonMappings, key)},
               !.timers = InsertAt(@, p,
                   Timer("check", note, s.currentNoteIndex, Len(s.notes), FALSE))]

handleKeyPress(s, eventKey, p) ==
    IF ~hasCurrentNote(s) THEN s
    ELSE LET key == toLowerCase(eventKey)
         IN IF matchingButtons(s.buttonMappings, key) = {} THEN s
            ELSE [s EXCEPT
                    !.pressedButtons = @ \cup {pressedButtonOf(s.buttonMappings, key)},
                    !.timers = InsertAt(@, p,
                        Timer("check", currentNote(s), s.currentNoteIndex, Len(s.notes), FALSE))]

\* The callback of setTimeout(..., 100): the updater reads the pressed set
\* of the moment it runs; the note is the one the closure captured.
checkOutcome(s, t) ==
    LET expectedCombination == t.note.valveCombination
        currentPressed == s.pressedButtons
    IN IF isCorrectCombination(expectedCombination, currentPressed)
       THEN "match"
       ELSE IF Cardinality(currentPressed) >= Len(expectedCombination)
       THEN "incorrect"
       ELSE "partial"

checkTimeout_clearsWhenWrong(s, t) ==
    LET currentPressed == s.pressedButtons
    IN IF checkOutcome(s, t) = "match"
       THEN [s EXCEPT
               !.feedback = CorrectFeedback(currentPressed, t.note.name),
               !.isCorrect = "true",
               !.timers = Append(@, Timer("advance", t.note, t.index, t.length, t.changed))]
       ELSE IF checkOutcome(s, t) = "incorrect"
       THEN [s EXCEPT
               !.feedback = IncorrectFeedback(currentPressed, t.note.name),
               !.isCorrect = "false",
               !.pressedButtons = {}]
       ELSE s

checkTimeout(s, t) ==
    LET currentPressed == s.pressedButtons
    IN IF checkOutcome(s, t) = "match"
       THEN [s EXCEPT
               !.feedback = CorrectFeedback(currentPressed, t.note.name),
               !.isCorrect = "true",
               !.timers = Append(@, Timer("advance", t.note, t.index, t.length, t.changed))]
       ELSE IF checkOutcome(s, t) = "incorrect"
       THEN [s EXCEPT
               !.feedback = IncorrectFeedback(currentPressed, t.note.name),
               !.isCorrect = "false"]
       ELSE s

\* The callback of setTimeout(..., 1500): the guard reads the captured index
\* and length, the update increments the index of the moment it runs.
advanceOutcome(t) ==
    IF t.index < t.length - 1 THEN "increment" ELSE "complete"

advanceTimeout(s, t) ==
    IF advanceOutcome(t) = "increment"
    THEN [s EXCEPT !.currentNoteIndex = @ + 1,
                   !.feedback = NoFeedback,
                   !.isCorrect = Null]
    ELSE [s EXCEPT !.feedback = CompletedFeedback,
                   !.isCorrect = "true"]

fireTimer(s) ==
    LET t == Head(s.timers)
        r == [s EXCEPT !.timers = Tail(@)]
    IN IF t.kind = "check" THEN checkTimeout(r, t) ELSE advanceTimeout(r, t)

handleFileUpload(s, file) ==
    IF file = Null THEN s
    ELSE [s EXCEPT !.musicXmlFile = file,
                   !.currentNoteIndex = 0,
                   !.feedback = UploadedFeedback,
                   !.isCorrect = Null]

handleNotesParsed_appends(s, parsedNotes) ==
    [s EXCEPT !.notes = @ \o applyValveCombinations(parsedNotes),
              !.currentNoteIndex = 0]

handleNotesParsed(s, parsedNotes) ==
    [s EXCEPT !.notes = applyValveCombinations(parsedNotes),
              !.currentNoteIndex = 0]

handleMappingChange_dropsOthers(s, buttonNumber, key) ==
    [s EXCEPT !.buttonMappings =
        [b \in Valves |-> IF b = buttonNumber THEN toLowerCase(key) ELSE ""]]

handleMappingChange(s, buttonNumber, key) ==
    [s EXCEPT !.buttonMappings[buttonNumber] = toLowerCase(key)]

nextNote_offByOne(s) ==
    IF s.currentNoteIndex < Len(s.notes)
    THEN [s EXCEPT !.currentNoteIndex = @ + 1,
                   !.feedback = NoFeedback,
                   !.isCorrect = Null]
    ELSE s

nextNote(s) ==
    IF s.currentNoteIndex < Len(s.notes) - 1
    THEN [s EXCEPT !.currentNoteIndex = @ + 1,
                   !.feedback = NoFeedback,
                   !.isCorrect = Null]
    ELSE s

prevNote_increments(s) ==
    IF s.currentNoteIndex > 0
    THEN [s EXCEPT !.currentNoteIndex = @ + 1,
                   !.feedback = NoFeedback,
                   !.isCorrect = Null]
    ELSE s

prevNote(s) ==
    IF s.currentNoteIndex > 0
    THEN [s EXCEPT !.currentNoteIndex = @ - 1,
                   !.feedback = NoFeedback,
                   !.isCorrect = Null]
    ELSE s

resetEffect_keepsPressed(prev, next) ==
    IF next.currentNoteIndex # prev.currentNoteIndex
    THEN [next EXCEPT !.feedback = NoFeedback,
                      !.isCorrect = Null]
    ELSE next

\* useEffect(..., [currentNoteIndex]): runs after a render in which the
\* index differs from the one of the render before.
resetEffect(prev, next) ==
    IF next.currentNoteIndex # prev.currentNoteIndex
    THEN [next EXCEPT !.pressedButtons = {},
                      !.feedback = NoFeedback,
                      !.isCorrect = Null]
    ELSE next

\* A handler, the render it causes and the effect; the history field of
\* every timer that stays pending records a change of the index.
render(prev, next) ==
    LET e == resetEffect(prev, next)
    IN [e EXCEPT !.timers =
            [i \in DOMAIN @ |->
                [@[i] EXCEPT !.changed =
                    @ \/ (next.currentNoteIndex # prev.currentNoteIndex)]]]

-----------------------------------------------------------------------------
(* History *)

NoNote == [name |-> "", valveCombination |-> <<>>]
NoAttempt == [on |-> FALSE, start |-> 0, keys |-> {}]

Last(op, branch) == [op |-> op, branch |-> branch]

asSet(arr) == {arr[i] : i \in DOMAIN arr}

\* The session state of the specification: what the practice area shows.
session(s) ==
    [notes |-> s.notes, currentNoteIndex |-> s.currentNoteIndex,
     pressedButtons |-> s.pressedButtons, feedback |-> s.feedback,
     isCorrect |-> s.isCorrect]

\* Which way a key event went through handleKeyPress.
keyOutcome(s, eventKey) ==
    LET m == matchingButtons(s.buttonMappings, toLowerCase(eventKey))
    IN IF ~hasCurrentNote(s) THEN "nonote"
       ELSE IF m = {} THEN "unmapped"
       ELSE IF Min(m) \in s.pressedButtons THEN "held"
       ELSE "added"

\* Whether a handler changed the session state.
sessionOutcome(prev, next) ==
    IF session(next) = session(prev) THEN "same" ELSE "changed"

\* A chord attempt: starts with the first key of the required combination
\* pressed in a quiescent state on a note that is not the last; goes on
\* while each further key event presses one more valve of the combination
\* and while timers fire; any other event ends it.
attemptAfterKey(s, eventKey) ==
    LET key == toLowerCase(eventKey)
        m == matchingButtons(s.buttonMappings, key)
    IN IF ~hasCurrentNote(s) \/ m = {} THEN NoAttempt
       ELSE LET v == Min(m)
                required == asSet(currentNote(s).valveCombination)
            IN IF /\ s.timers = <<>>
                  /\ s.pressedButtons = {}
                  /\ s.currentNoteIndex < Len(s.notes) - 1
                  /\ v \in required
               THEN [on |-> TRUE, start |-> s.currentNoteIndex, keys |-> {v}]
               ELSE IF /\ attempt.on
                       /\ s.currentNoteIndex = attempt.start
                       /\ v \in required \ attempt.keys
               THEN [attempt EXCEPT !.keys = @ \cup {v}]
               ELSE NoAttempt

-----------------------------------------------------------------------------
(* Actions *)

Commit(s) ==
    /\ musicXmlFile' = s.musicXmlFile
    /\ notes' = s.notes
    /\ currentNoteIndex' = s.currentNoteIndex
    /\ buttonMappings' = s.buttonMappings
    /\ feedback' = s.feedback
    /\ isCorrect' = s.isCorrect
    /\ pressedButtons' = s.pressedButtons
    /\ timers' = s.timers

Scores == UNION {[1..n -> [name : Pitches]] : n \in 0..MaxNotes}

Init ==
    /\ musicXmlFile = Null
    /\ notes = <<>>
    /\ currentNoteIndex = 0
    /\ buttonMappings = (1 :> "a" @@ 2 :> "s" @@ 3 :> "d")
    /\ feedback = NoFeedback
    /\ isCorrect = Null
    /\ pressedButtons = {}
    /\ timers = <<>>
    /\ last = Last("mount", "")
    /\ attempt = NoAttempt

KeyDown(eventKey) ==
    \E p \in Positions(timers, Timer("check", NoNote, 0, 0, FALSE)) :
        LET s == handleKeyPress(State, eventKey, p)
        IN /\ Len(s.timers) <= MaxTimers
           /\ s.timers = timers => p = Len(timers) + 1
           /\ Commit(render(State, s))
           /\ last' = Last("handleKeyPress", keyOutcome(State, eventKey))
           /\ attempt' = attemptAfterKey(State, eventKey)

CheckFires ==
    /\ timers # <<>>
    /\ Head(timers).kind = "check"
    /\ Commit(render(State, fireTimer(State)))
    /\ last' = Last("checkTimeout", checkOutcome(State, Head(timers)))
    /\ UNCHANGED attempt

AdvanceFires ==
    /\ timers # <<>>
    /\ Head(timers).kind = "advance"
    /\ Commit(render(State, fireTimer(State)))
    /\ last' = Last("advanceTimeout", advanceOutcome(Head(timers)))
    /\ UNCHANGED attempt

\* PracticeArea renders the two buttons only while there is a current note.
NextNote ==
    /\ hasCurrentNote(State)
    /\ Commit(render(State, nextNote(State)))
    /\ last' = Last("nextNote", sessionOutcome(State, nextNote(State)))
    /\ attempt' = NoAttempt

PrevNote ==
    /\ hasCurrentNote(State)
    /\ Commit(render(State, prevNote(State)))
    /\ last' = Last("prevNote", sessionOutcome(State, prevNote(State)))
    /\ attempt' = NoAttempt

FileUpload(file) ==
    /\ Commit(render(State, handleFileUpload(State, file)))
    /\ last' = Last("handleFileUpload",
                     IF file = Null THEN "cancelled"
                     ELSE sessionOutcome(State, render(State, handleFileUpload(State, file))))
    /\ attempt' = NoAttempt

\* SheetMusicDisplay is mounted only while a file is selected.
NotesParsed(parsedNotes) ==
    /\ musicXmlFile # Null
    /\ Commit(render(State, handleNotesParsed(State, parsedNotes)))
    /\ last' = Last("handleNotesParsed",
                     IF last.op = "handleNotesParsed"
                        /\ applyValveCombinations(parsedNotes) = notes
                     THEN "again" ELSE "")
    /\ attempt' = NoAttempt

\* SheetMusicDisplay's load of the selected file throws: the component
\* keeps the error to itself, App passes it no onError.
loadFailed(s) == s

LoadFails ==
    /\ musicXmlFile # Null
    /\ Commit(render(State, loadFailed(State)))
    /\ last' = Last("loadFailed",
                     IF last.op = "handleFileUpload" THEN last.branch ELSE "")
    /\ attempt' = NoAttempt

\* The notes a well-formed score file holds.
scoreOf(file) == <<[name |-> "A4"], [name |-> "C4"]>>

\* SheetMusicDisplay's load of the selected file succeeds: the component
\* sets its own status and calls onRendered, which App does not pass; the
\* onNotesParsed that App passes is no prop of the component.
loadRendered(s) == s

LoadRendered ==
    /\ musicXmlFile # Null
    /\ Commit(render(State, loadRendered(State)))
    /\ last' = Last("loadRendered", "")
    /\ attempt' = NoAttempt

MappingChange(buttonNumber, key) ==
    /\ Commit(render(State, handleMappingChange(State, buttonNumber, key)))
    /\ last' = Last("handleMappingChange", "")
    /\ attempt' = NoAttempt

Next ==
    \/ \E k \in EventKeys : KeyDown(k)
    \/ CheckFires
    \/ AdvanceFires
    \/ NextNote
    \/ PrevNote
    \/ \E f \in Files \cup {Null} : FileUpload(f)
    \/ \E ns \in Scores : NotesParsed(ns)
    \/ LoadFails
    \/ LoadRendered
    \/ \E b \in MappingButtons, k \in MappingInputs : MappingChange(b, k)

Spec == Init /\ [][Next]_vars

TypeOK ==
    /\ currentNoteIndex \in Nat
    /\ pressedButtons \subseteq Valves
    /\ isCorrect \in {Null, "true", "false"}
    /\ Len(timers) <= MaxTimers

-----------------------------------------------------------------------------
(* Notions the claims share *)

required == currentNote(State).valveCombination
matches == isCorrectCombination(required, pressedButtons)
lastIndex == Len(notes) - 1
TimerFires == CheckFires \/ AdvanceFires

\* What key input alone can lead to: key events and the timers they leave.
keySuccessors(s) ==
    {r \in {render(s, handleKeyPress(s, k, p)) :
                k \in EventKeys, p \in Positions(s.timers, Timer("check", NoNote, 0, 0, FALSE))} :
        Len(r.timers) <= MaxTimers}
    \cup (IF s.timers = <<>> THEN {} ELSE {render(s, fireTimer(s))})

RECURSIVE keyReachable(_, _)
keyReachable(seen, frontier) ==
    IF frontier = {} THEN seen
    ELSE LET next == (UNION {keySuccessors(s) : s \in frontier}) \ seen
         IN keyReachable(seen \cup next, next)

-----------------------------------------------------------------------------
(* C1: with a non-empty note sequence the current index is always one of   *)
(* 0 .. len(notes)-1, whatever the interleaving of key events, timers,      *)
(* navigation and loads.                                                    *)
C1_IndexInRange ==
    notes # <<>> => currentNoteIndex \in 0..lastIndex

(* C2: on a note that is not the last, once key events have pressed        *)
(* exactly the valves of its non-empty combination (each once, any order,   *)
(* any timing) and every pending delay has expired with no other event,     *)
(* the index is one more than before the first key and nothing is pressed.  *)
C2_ChordAdvancesByOne ==
    (/\ attempt.on
     /\ attempt.keys = asSet(notes[attempt.start + 1].valveCombination)
     /\ timers = <<>>)
    => (currentNoteIndex = attempt.start + 1 /\ pressedButtons = {})

(* C3: an advance that became pending on a match of the current note does  *)
(* not change the index when it expires if a further key event has          *)
(* meanwhile made the pressed set differ from the combination of the note   *)
(* (the index has not changed since the key events of the match).           *)
C3_AdvanceRechecksPressed ==
    [][(/\ AdvanceFires
        /\ ~Head(timers).changed
        /\ hasCurrentNote(State)
        /\ Head(timers).note = currentNote(State)
        /\ ~matches)
       => currentNoteIndex' = currentNoteIndex]_vars

(* C4: a check or an advance scheduled while one note was current has no   *)
(* effect on index, feedback or correctness when the index has changed      *)
(* before its delay expires.                                                *)
C4_StaleTimerDiscarded ==
    [][(TimerFires /\ Head(timers).changed)
       => /\ currentNoteIndex' = currentNoteIndex
          /\ feedback' = feedback
          /\ isCorrect' = isCorrect]_vars

(* C5: once the current note is marked incorrect (the pressed set differs  *)
(* from its combination and holds at least as many valves), no timer        *)
(* changes the index; stated for the timers of key events on this very      *)
(* note, so that no timer left over from another note is what breaks it.    *)
C5_IncorrectNeverAdvances ==
    [][(/\ TimerFires
        /\ isCorrect = "false"
        /\ hasCurrentNote(State)
        /\ ~Head(timers).changed
        /\ Head(timers).note = currentNote(State)
        /\ ~matches
        /\ Cardinality(pressedButtons) >= Len(required))
       => currentNoteIndex' = currentNoteIndex]_vars

(* C6: when the current note has the empty combination and no key is held, *)
(* the empty pressed set is taken as a match without any key being          *)
(* pressed: the match is already shown or a delay that leads to it is       *)
(* pending.                                                                 *)
C6_OpenNoteMatchedWithoutKeys ==
    (/\ hasCurrentNote(State)
     /\ required = <<>>
     /\ pressedButtons = {})
    => (isCorrect = "true" \/ timers # <<>>)

(* C7: from every state in which the current note is marked incorrect, key *)
(* input alone (no navigation, no load) can still lead to the note being    *)
(* marked correct.                                                          *)
C7_CanRetryByKeysAlone ==
    (/\ isCorrect = "false"
     /\ hasCurrentNote(State)
     /\ ~matches
     /\ Cardinality(pressedButtons) >= Len(required))
    => \E r \in keyReachable({State}, {State}) :
          r.isCorrect = "true" /\ r.currentNoteIndex = currentNoteIndex

(* C8: whenever an evaluation marks the current note correct, that note    *)
(* is not the last and no further event arrives, the index increases when   *)
(* the delay the evaluation left pending expires.                           *)
C8_CorrectThenAdvances ==
    [][(/\ AdvanceFires
        /\ last = Last("checkTimeout", "match")
        /\ Len(timers) = 1
        /\ hasCurrentNote(State)
        /\ currentNoteIndex < lastIndex)
       => currentNoteIndex' > currentNoteIndex]_vars

(* C9: an advance that fires while the index is the last one leaves the    *)
(* index and enters the complete state (correct, completion message), and   *)
(* the complete state is entered only by an advance that fires while the    *)
(* index is the last one.                                                   *)
C9_CompleteOnlyAtLastIndex ==
    [][AdvanceFires
       => /\ (currentNoteIndex = lastIndex
                => /\ currentNoteIndex' = currentNoteIndex
                   /\ isCorrect' = "true"
                   /\ feedback' = CompletedFeedback)
          /\ (feedback' = CompletedFeedback => currentNoteIndex = lastIndex)]_vars

(* C10: after handleNotesParsed delivers a non-empty sequence, from any    *)
(* state, the index is 0 and no valve is pressed.                           *)
C10_LoadResetsIndexAndPressed ==
    (last.op = "handleNotesParsed" /\ notes # <<>>)
    => (currentNoteIndex = 0 /\ pressedButtons = {})

-----------------------------------------------------------------------------
(* Notions shared by the statements about loading, keys and navigation *)

sessionVars == <<notes, currentNoteIndex, pressedButtons, feedback, isCorrect>>

keyButtons(eventKey) == matchingButtons(buttonMappings, toLowerCase(eventKey))

\* PracticeArea: a navigation button can be used when it is rendered, which
\* takes a current note, and not disabled.
canGoPrev(s) == hasCurrentNote(s) /\ ~(s.currentNoteIndex = 0)
canGoNext(s) == hasCurrentNote(s) /\ ~(s.currentNoteIndex = Len(s.notes) - 1)

(* C11: when the notes of a file that has just been selected are delivered *)
(* (handleFileUpload, then handleNotesParsed), correctness is unknown and   *)
(* the feedback is the ready message, whatever the index was before.       *)
C11_LoadShowsReadyMessage ==
    [][(/\ last.op = "handleFileUpload"
        /\ last.branch # "cancelled"
        /\ \E ns \in Scores : NotesParsed(ns))
       => (isCorrect' = Null /\ feedback' = UploadedFeedback)]_vars

(* C13: when the load of a file that has just been selected fails, the     *)
(* session state is the one from before the file was selected.             *)
C13_FailedLoadKeepsSession ==
    last.op = "loadFailed" => last.branch # "changed"

(* C16: an evaluation that finds the pressed set different from the        *)
(* current note's combination and smaller than it leaves correctness       *)
(* unknown and the feedback as it was.  The evaluation is one of the       *)
(* current note, scheduled since the index last changed.                   *)
C16_PartialLeavesUnknown ==
    [][(/\ CheckFires
        /\ hasCurrentNote(State)
        /\ ~Head(timers).changed
        /\ Head(timers).note = currentNote(State)
        /\ ~matches
        /\ Cardinality(pressedButtons) < Len(required))
       => (isCorrect' = Null /\ feedback' = feedback)]_vars

(* C12: delivering the same note sequence a second time, right after the   *)
(* first, leaves the session state as the first delivery left it.          *)
C12_LoadIdempotent ==
    [][(/\ last.op = "handleNotesParsed"
        /\ \E ns \in Scores :
              /\ applyValveCombinations(ns) = notes
              /\ NotesParsed(ns))
       => UNCHANGED sessionVars]_vars

C12_Witness ==
    /\ last = Last("handleNotesParsed", "again")
    /\ notes # <<>>
    /\ pressedButtons # {}
    /\ isCorrect # Null

(* C14: a key event whose key no button is mapped to changes nothing of    *)
(* the session state and schedules no timer.                               *)
C14_UnmappedKeyIgnored ==
    [][\A k \in EventKeys :
          (last'.op = "handleKeyPress" /\ keyButtons(k) = {} /\ KeyDown(k))
          => (UNCHANGED sessionVars /\ UNCHANGED timers)]_vars

C14_Witness ==
    /\ last = Last("handleKeyPress", "unmapped")
    /\ pressedButtons # {}
    /\ timers # <<>>

(* C15: a key event whose key is mapped to a button, with a current note,  *)
(* adds that button to the pressed set; when the button is in the set      *)
(* already the set stays as it is.                                         *)
C15_MappedKeyAddsButton ==
    [][\A k \in EventKeys :
          (/\ last'.op = "handleKeyPress"
           /\ hasCurrentNote(State)
           /\ keyButtons(k) # {}
           /\ KeyDown(k))
          => /\ \E v \in keyButtons(k) : pressedButtons' = pressedButtons \cup {v}
             /\ (keyButtons(k) \subseteq pressedButtons
                 => pressedButtons' = pressedButtons)]_vars

C15_Witness ==
    /\ last = Last("handleKeyPress", "held")
    /\ Cardinality(pressedButtons) >= 2

(* C17: Next Note at the last index and Previous Note at index 0 change    *)
(* nothing of the session state, and the button is disabled there.         *)
C17_NavAtBoundaryNoOp ==
    [][/\ (currentNoteIndex = lastIndex /\ NextNote)
          => (UNCHANGED sessionVars /\ ~canGoNext(State))
       /\ (currentNoteIndex = 0 /\ PrevNote)
          => (UNCHANGED sessionVars /\ ~canGoPrev(State))]_vars

C17_Witness ==
    /\ last = Last("nextNote", "same")
    /\ currentNoteIndex = lastIndex
    /\ pressedButtons # {}
    /\ isCorrect # Null

(* C18: Next Note below the last index moves the index up by one, Previous *)
(* Note above index 0 moves it down by one; both clear the feedback and    *)
(* make correctness unknown.                                               *)
C18_NavInsideMovesByOne ==
    [][/\ (currentNoteIndex < lastIndex /\ NextNote)
          => /\ currentNoteIndex' = currentNoteIndex + 1
             /\ feedback' = NoFeedback
             /\ isCorrect' = Null
       /\ (currentNoteIndex > 0 /\ PrevNote)
          => /\ currentNoteIndex' = currentNoteIndex - 1
             /\ feedback' = NoFeedback
             /\ isCorrect' = Null]_vars

C18_Witness ==
    /\ last = Last("prevNote", "changed")
    /\ currentNoteIndex = 0
    /\ Len(notes) = 2

(* C19: every step that changes the index ends with the pressed set empty. *)
C19_IndexChangeClearsPressed ==
    [][currentNoteIndex' # currentNoteIndex => pressedButtons' = {}]_vars

C19_Witness ==
    /\ last = Last("advanceTimeout", "increment")
    /\ currentNoteIndex = 1
    /\ pressedButtons = {}

(* C20: a change of one button's key changes that entry of the mapping     *)
(* only: the session state and the other entries stay, also while buttons  *)
(* are pressed.                                                            *)
C20_RemapChangesOneEntry ==
    [][\A b \in MappingButtons : \A k \in MappingInputs :
          MappingChange(b, k)
          => /\ UNCHANGED sessionVars
             /\ buttonMappings'[b] = toLowerCase(k)
             /\ \A o \in Valves \ {b} : buttonMappings'[o] = buttonMappings[o]]_vars

C20_Witness ==
    /\ last.op = "handleMappingChange"
    /\ buttonMappings[1] = "s"
    /\ pressedButtons # {}

-----------------------------------------------------------------------------
(* Keys and mappings: a score of two notes is loaded, and every button can  *)
(* be given every key, so that keys collide and come free again.           *)

RemapKeys == {"a", "s", "D"}

KeysScore == <<[name |-> "A4"], [name |-> "C4"]>>

InitKeys ==
    /\ musicXmlFile = "score.xml"
    /\ notes = applyValveCombinations(KeysScore)
    /\ currentNoteIndex = 0
    /\ buttonMappings = [b \in Valves |-> CASE b = 1 -> "a" [] b = 2 -> "s" [] OTHER -> "d"]
    /\ feedback = UploadedFeedback
    /\ isCorrect = Null
    /\ pressedButtons = {}
    /\ timers = <<>>
    /\ last = Last("handleNotesParsed", "")
    /\ attempt = NoAttempt

NextKeys ==
    \/ \E k \in EventKeys : KeyDown(k)
    \/ CheckFires
    \/ AdvanceFires
    \/ \E b \in Valves : \E k \in RemapKeys : MappingChange(b, k)

SpecKeys == InitKeys /\ [][NextKeys]_vars

\* The buttons the mapping of the moment gives a key, read off the state.
mappedTo(eventKey) == {v \in Valves : buttonMappings[v] = toLowerCase(eventKey)}

(* C21: a key event uses the mapping as the last change left it: the key   *)
(* a button was given adds that button (unless a lower button has the same *)
(* key), and a key the button no longer has does not add it.               *)
C21_KeysUseNewMapping ==
    [][\A k \in EventKeys :
          (last'.op = "handleKeyPress" /\ hasCurrentNote(State) /\ KeyDown(k))
          => \A v \in Valves :
                /\ (v \in mappedTo(k) /\ \A o \in mappedTo(k) : v <= o)
                   => v \in pressedButtons'
                /\ (v \notin mappedTo(k) /\ v \notin pressedButtons)
                   => v \notin pressedButtons']_vars

C21_Witness ==
    /\ last = Last("handleKeyPress", "added")
    /\ buttonMappings = (1 :> "s" @@ 2 :> "a" @@ 3 :> "d")
    /\ pressedButtons = {2}

(* C22: when several buttons have the same key, a key event of that key    *)
(* adds one button to the pressed set, the lowest of them.                 *)
C22_CollisionLowestWins ==
    [][\A k \in EventKeys :
          (/\ last'.op = "handleKeyPress"
           /\ hasCurrentNote(State)
           /\ Cardinality(mappedTo(k)) >= 2
           /\ KeyDown(k))
          => \E v \in mappedTo(k) :
                /\ \A o \in mappedTo(k) : v <= o
                /\ pressedButtons' = pressedButtons \cup {v}]_vars

C22_Witness ==
    /\ last = Last("handleKeyPress", "added")
    /\ pressedButtons = {2}
    /\ buttonMappings[2] = buttonMappings[3]
    /\ buttonMappings[1] # buttonMappings[2]

-----------------------------------------------------------------------------
(* isCorrectCombination on all its inputs: every duplicate-free array of   *)
(* valves as the expected combination of the note a pending check has      *)
(* captured, every set of valves as the pressed set the check finds.       *)

Combinations ==
    {c \in UNION {[1..n -> Valves] : n \in 0..3} :
        \A i, j \in DOMAIN c : i # j => c[i] # c[j]}

InitMatch ==
    \E c \in Combinations : \E pressed \in SUBSET Valves :
        LET note == [name |-> "A4", valveCombination |-> c]
        IN /\ musicXmlFile = "score.xml"
           /\ notes = <<note>>
           /\ currentNoteIndex = 0
           /\ buttonMappings = (1 :> "a" @@ 2 :> "s" @@ 3 :> "d")
           /\ feedback = NoFeedback
           /\ isCorrect = Null
           /\ pressedButtons = pressed
           /\ timers = <<Timer("check", note, 0, 1, FALSE)>>
           /\ last = Last("handleKeyPress", "held")
           /\ attempt = NoAttempt

NextMatch ==
    \/ CheckFires
    \/ AdvanceFires

SpecMatch == InitMatch /\ [][NextMatch]_vars

sameMembers(arr, set) == asSet(arr) = set

(* C23: isCorrectCombination is true exactly when the expected combination *)
(* and the pressed set have the same members; the check of a pending timer *)
(* reports a match in these cases and in no other.                         *)
C23_MatchIffSameMembers ==
    /\ isCorrectCombination(notes[1].valveCombination, pressedButtons)
       <=> sameMembers(notes[1].valveCombination, pressedButtons)
    /\ last.op = "checkTimeout"
       => (last.branch = "match"
           <=> sameMembers(notes[1].valveCombination, pressedButtons))

C23_Witness ==
    /\ last = Last("checkTimeout", "incorrect")
    /\ notes[1].valveCombination = <<3, 1>>
    /\ pressedButtons = {1, 2, 3}

-----------------------------------------------------------------------------
(* noteToValveCombination on pitch names in and out of the fingering       *)
(* table, applied by the delivery of parsed notes.                         *)

PitchNames == DOMAIN valveMap \cup {"B3", "Bb4", "c4", "", "constructor"}

PitchScores == UNION {[1..n -> [name : PitchNames]] : n \in 1..MaxNotes}

InitPitch ==
    /\ musicXmlFile = "score.xml"
    /\ notes = <<>>
    /\ currentNoteIndex = 0
    /\ buttonMappings = (1 :> "a" @@ 2 :> "s" @@ 3 :> "d")
    /\ feedback = UploadedFeedback
    /\ isCorrect = Null
    /\ pressedButtons = {}
    /\ timers = <<>>
    /\ last = Last("handleFileUpload", "changed")
    /\ attempt = NoAttempt

NextPitch == \E ns \in PitchScores : NotesParsed(ns)

SpecPitch == InitPitch /\ [][NextPitch]_vars

inTable(noteName) ==
    noteName \in {"C4", "C#4", "D4", "D#4", "E4", "F4", "F#4", "G4", "G#4",
                  "A4", "A#4", "B4", "C5", "C#5", "D5", "D#5", "E5"}

isCombination(c) ==
    /\ \A i \in DOMAIN c : c[i] \in Valves
    /\ \A i, j \in DOMAIN c : i # j => c[i] # c[j]

(* C24: every note delivered has a combination: the empty one when its     *)
(* pitch name is not in the fingering table, and always an array of        *)
(* valves 1..3 without duplicates.                                         *)
C24_CombinationTotal ==
    \A i \in DOMAIN notes :
        LET c == notes[i].valveCombination
        IN /\ ~inTable(notes[i].name) => c = <<>>
           /\ isCombination(c)

-----------------------------------------------------------------------------
(* Statements about the loader, the empty score and the pressed set,       *)
(* checked under Spec.                                                     *)

(* C25: when SheetMusicDisplay has loaded and rendered the selected file,  *)
(* the notes of the file are delivered: notes is the annotated sequence.   *)
C25_RenderedScoreDelivered ==
    [][(last'.op = "loadRendered" /\ LoadRendered)
       => notes' = applyValveCombinations(scoreOf(musicXmlFile))]_vars

(* C26: with no notes there is no current note and no navigation button    *)
(* to use, and key events and navigation change neither index, pressed     *)
(* set, feedback nor correctness and schedule no timer.                    *)
C26_EmptyScoreInert ==
    [][notes = <<>>
       => /\ ~hasCurrentNote(State)
          /\ ~canGoPrev(State)
          /\ ~canGoNext(State)
          /\ ((\E k \in EventKeys : KeyDown(k)) \/ NextNote \/ PrevNote)
             => UNCHANGED <<currentNoteIndex, pressedButtons, feedback,
                            isCorrect, timers>>]_vars

C26_Witness ==
    /\ notes = <<>>
    /\ last = Last("handleKeyPress", "nonote")
    /\ musicXmlFile # Null
    /\ pressedButtons # {}

(* C27: whenever correctness is "correct" there is a current note and the  *)
(* pressed set is that note's combination.                                 *)
C27_CorrectMeansHeld ==
    isCorrect = "true" => (hasCurrentNote(State) /\ matches)

(* C28: at most one advance is pending at any time.                        *)
C28_OneAdvancePending ==
    Cardinality({i \in DOMAIN timers : timers[i].kind = "advance"}) <= 1

(* C29: a step that leaves the index as it is takes no button out of the   *)
(* pressed set.                                                            *)
C29_PressedOnlyGrows ==
    [][currentNoteIndex' = currentNoteIndex
       => pressedButtons \subseteq pressedButtons']_vars

C29_Witness ==
    /\ last = Last("checkTimeout", "incorrect")
    /\ pressedButtons = {1, 2, 3}
    /\ currentNoteIndex = 1

====
